---- MODULE Spec2Model ----
(***************************************************************************)
(* The voice conversation orchestrator of AIDEN: VoiceManager              *)
(* (backend/voice/voice_manager.py), the capture and transcription loop    *)
(* of WhisperSTT (backend/voice/stt.py), the multi-context session of      *)
(* ElevenLabsTTS (backend/voice/tts.py) and the /voice endpoints            *)
(* (backend/api/voice.py).                                                  *)
(*                                                                          *)
(* Spec       the asyncio tasks that share the one VoiceManager: the        *)
(*            /voice/stream handlers, their continuous_conversation tasks   *)
(*            and the REST start/stop endpoints.  One action is the code    *)
(*            a coroutine runs between two await points.                    *)
(* SpecShared two /voice/stream clients on the process-wide VoiceManager.   *)
(* SpecListen listen_for_input against a clock, the capture callback and    *)
(*            the audio queue, poll by poll.                                *)
(***************************************************************************)
EXTENDS Integers, Sequences, FiniteSets, TLC

(* ------------------------------ bounds --------------------------------- *)
MaxSessions == 2       \* synthesis sessions the engine accepts in one run
MaxUtterances == 2     \* times the user starts to speak in one run
MaxFrags == 1          \* transcript fragments of one utterance
MaxReplyChunks == 1    \* fragments one Response Generator run yields
MaxAudio == 1          \* messages the engine sends for one reply
MaxOver == 1           \* seconds a wait is followed past the per-chunk timeout
MaxTime == 12          \* seconds the clock of SpecListen runs
TurnFrags == 2         \* transcript fragments of one utterance in SpecTurn
TurnChunks == 2        \* fragments one Response Generator run yields there
MaxQueued == 3         \* frames the audio queue holds in SpecCapture

(* ------------------------ constants of the program ---------------------- *)
ChunkDuration == 1     \* WhisperSTT.chunk_duration, seconds
MaxSilence == 2        \* VoiceManager.max_silence_duration, seconds
DetectTimeout == 5     \* detect_speech_start(timeout=5.0)
ResponseTimeout == 10  \* VoiceManager.response_timeout, seconds
ChunkTimeout == 5      \* asyncio.wait_for(websocket.recv(), timeout=5.0)
Threshold == 1         \* the amplitude level that equals silence_threshold
Levels == {0, 1, 2}    \* amplitude of a frame: below, at, above the threshold

(* --------------------------- the processes ----------------------------- *)
Conns == {1, 2}                      \* connections to /voice/stream
T(c) == 10 + c                       \* the conversation task of connection c
Tasks == {T(c) : c \in Conns}
Rest == {21}                         \* a caller of the REST endpoints
AudioThread == 31                    \* the thread that runs _audio_callback
Procs == Conns \cup Tasks \cup Rest \cup {AudioThread}

NoSession == 0                       \* current_session = None
SP == " "
Words == {"hi", "Goodbye"}           \* what the transcription engine returns
ReplyChunks == {<<>>, <<"ok">>}      \* what the Response Generator yields
TurnReplies == ReplyChunks \cup {<<"bye">>}     \* and yields in SpecTurn

VARIABLES
    state,                  \* VoiceManager.state
    is_voice_mode_active,   \* VoiceManager.is_voice_mode_active
    current_session,        \* VoiceManager.current_session (a session id)
    conversation_context,   \* VoiceManager.conversation_context
    is_recording,           \* WhisperSTT.is_recording
    open,                   \* the session websockets that are open
    opened,                 \* sessions multi_context_stream has opened so far
    stale,                  \* sessions with a reply abandoned before its end
    spoken,                 \* utterances the user has begun so far
    pc,                     \* where each coroutine is suspended
    closing,                \* the session whose close() a stop call awaits
    cancelled,              \* conversation_task.cancel() was called
    full_transcription,     \* listen_for_input's local, per task
    user_input,             \* handle_conversation_turn's local, per task
    agent_response,         \* handle_conversation_turn's local, per task
    websocket,              \* the session speak_response talks to, per task
    reply_log,              \* what speak_response received and delivered
    speak_exit,             \* state when speak_response last returned
    speak_path,             \* how the reply of the turn ended
    stop_age,               \* time a turn has stayed suspended since a stop
    last_op,                \* the last start_voice_mode or stop_voice_mode call
    audio_queue,            \* WhisperSTT.audio_queue
    audio_buffer,           \* stream_transcription's local
    last_process_time,      \* stream_transcription's local
    start_time,             \* listen_for_input's local
    detect_start,           \* detect_speech_start's local start_time
    last_speech_time,       \* listen_for_input's local
    now,                    \* time.time(), in seconds
    polled,                 \* the poll loop has run at the present time
    captured,               \* the capture callback has run at the present time
    recv_start,             \* when speak_response entered its receive loop
    wait_start,             \* when its present wait_for(recv) began
    buffer_calls,           \* engine calls on the buffer it was last given
    raised_at               \* when the engine last raised in the poll loop

vmVars == <<state, is_voice_mode_active, current_session, conversation_context>>
ttsVars == <<open, opened, stale>>
turnVars == <<full_transcription, user_input, agent_response, websocket,
              reply_log, speak_exit, speak_path>>
vars == <<state, is_voice_mode_active, current_session, conversation_context,
          is_recording, open, opened, stale, spoken, pc, closing, cancelled,
          full_transcription, user_input, agent_response, websocket,
          reply_log, speak_exit, speak_path, stop_age, last_op, audio_queue,
          audio_buffer, last_process_time, start_time, detect_start,
          last_speech_time, now, polled, captured, recv_start, wait_start,
          buffer_calls, raised_at>>

\* The clock and the locals of the polling loops of WhisperSTT.  Spec leaves
\* them alone: it takes the outcome of a poll loop as one step.
engineVars == <<buffer_calls, raised_at>>
listenVars == <<audio_buffer, last_process_time, start_time, detect_start,
                last_speech_time, now, polled, captured, engineVars>>
\* The times of the receive loop of speak_response.
speakVars == <<recv_start, wait_start>>
timeVars == <<listenVars, speakVars>>

VoiceState == {"IDLE", "LISTENING", "PROCESSING", "SPEAKING", "ERROR"}

Init ==
    /\ state = "IDLE"
    /\ is_voice_mode_active = FALSE
    /\ current_session = NoSession
    /\ conversation_context = <<>>
    /\ is_recording = FALSE
    /\ open = {}
    /\ opened = 0
    /\ stale = {}
    /\ spoken = 0
    /\ pc = [p \in Procs |-> IF p \in Tasks THEN "none" ELSE "idle"]
    /\ closing = [p \in Procs |-> NoSession]
    /\ cancelled = [c \in Conns |-> FALSE]
    /\ full_transcription = [c \in Conns |-> <<>>]
    /\ user_input = [c \in Conns |-> <<>>]
    /\ agent_response = [c \in Conns |-> <<>>]
    /\ websocket = [c \in Conns |-> NoSession]
    /\ reply_log = [c \in Conns |-> <<>>]
    /\ speak_exit = [c \in Conns |-> "none"]
    /\ speak_path = [c \in Conns |-> "none"]
    /\ stop_age = [c \in Conns |-> 0]
    /\ last_op = "none"
    /\ audio_queue = <<>>
    /\ audio_buffer = <<>>
    /\ last_process_time = 0
    /\ start_time = 0
    /\ detect_start = 0
    /\ last_speech_time = 0
    /\ now = 0
    /\ polled = FALSE
    /\ captured = FALSE
    /\ recv_start = [c \in Conns |-> 0]
    /\ wait_start = [c \in Conns |-> 0]
    /\ buffer_calls = 0
    /\ raised_at = 0

(* ------------------- start_voice_mode, stop_voice_mode ------------------ *)

\* Where a coroutine goes on when the stop_voice_mode it called has returned:
\* the handler closes its connection, continuous_conversation ends, the REST
\* endpoint answers.
Returned(p) ==
    IF p \in Conns THEN "closed" ELSE IF p \in Tasks THEN "done" ELSE "idle"

\* where handle_conversation_turn can be suspended
InTurn == {"detect", "stream", "gen", "send", "recv"}

\* A stop_voice_mode that awaited a close() whether or not a session is
\* current.
StopBeginAlwaysCloses(p) ==
    /\ is_voice_mode_active' = FALSE
    /\ state' = "IDLE"
    /\ is_recording' = FALSE
    /\ audio_queue' = <<>>
    /\ stop_age' = stop_age
    /\ closing' = [closing EXCEPT ![p] = current_session]
    /\ pc' = [pc EXCEPT ![p] = "stop_close"]

\* stop_voice_mode up to its await on close(): the flags, stop_recording,
\* and the close function of the session that is current now.
StopBegin(p) ==
    /\ is_voice_mode_active' = FALSE
    /\ state' = "IDLE"
    /\ is_recording' = FALSE
    /\ audio_queue' = <<>>
    /\ stop_age' = [c \in Conns |->
                       IF T(c) = p THEN 0
                       ELSE IF stop_age[c] = 0 /\ pc[T(c)] \in InTurn THEN 1
                       ELSE stop_age[c]]
    /\ IF current_session # NoSession
          THEN /\ closing' = [closing EXCEPT ![p] = current_session]
               /\ pc' = [pc EXCEPT ![p] = "stop_close"]
          ELSE /\ closing' = closing
               /\ pc' = [pc EXCEPT ![p] = Returned(p)]

\* What a stop_voice_mode call that has returned leaves, nothing else
\* having run since.
Stopped ==
    ~is_voice_mode_active /\ ~is_recording /\ current_session = NoSession

\* A call of stop_voice_mode by p: from a REST endpoint, a handler's or a
\* loop's finally block.
StopCall(p) ==
    /\ StopBegin(p)
    /\ last_op' = IF Stopped THEN "stop_again" ELSE "stop"

\* An except clause of start_voice_mode that set ERROR and re-raised without
\* calling stop_voice_mode.
StartFailedNoStop(p) ==
    /\ state' = "ERROR"
    /\ pc' = [pc EXCEPT ![p] = Returned(p)]
    /\ last_op' = "start_failed"
    /\ UNCHANGED <<is_voice_mode_active, is_recording, closing, stop_age,
                   audio_queue>>

\* The except clause of start_voice_mode: ERROR, stop_voice_mode, re-raise
\* to the caller of p.
StartFailed(p) ==
    /\ StopBegin(p)
    /\ last_op' = "start_failed"

\* close() has returned: close_context was sent and the websocket closed (or
\* the send failed on a closed websocket, which close() swallows);
\* stop_voice_mode then forgets whatever session is current.
StopDone(p) ==
    /\ pc[p] = "stop_close"
    /\ p \in Tasks => ~cancelled[p - 10]
    /\ open' = open \ {closing[p]}
    /\ stale' = stale \ {closing[p]}
    /\ current_session' = NoSession
    /\ closing' = [closing EXCEPT ![p] = NoSession]
    /\ pc' = [pc EXCEPT ![p] = Returned(p)]
    /\ UNCHANGED <<state, is_voice_mode_active, conversation_context,
                   is_recording, opened, spoken, cancelled, turnVars,
                   stop_age, last_op, audio_queue, timeVars>>

\* A start_voice_mode without the test of is_voice_mode_active.
StartBeginUnguarded(p, ret) ==
    /\ is_recording' = TRUE
    /\ pc' = [pc EXCEPT ![p] = "start_open"]
    /\ last_op' = IF is_voice_mode_active THEN "start_noop" ELSE "start"
    /\ UNCHANGED <<state, is_voice_mode_active, closing, stop_age,
                   audio_queue>>

\* start_voice_mode up to its await on multi_context_stream.  `ret` is where
\* the caller goes on when the call returns without raising.
StartBegin(p, ret) ==
    IF is_voice_mode_active
      THEN \* already active: a warning, nothing else
           /\ pc' = [pc EXCEPT ![p] = ret]
           /\ last_op' = "start_noop"
           /\ UNCHANGED <<state, is_voice_mode_active, is_recording, closing,
                          stop_age, audio_queue>>
      ELSE \/ \* start_recording succeeds, or is already recording
              /\ is_recording' = TRUE
              /\ pc' = [pc EXCEPT ![p] = "start_open"]
              /\ last_op' = "start"
              /\ UNCHANGED <<state, is_voice_mode_active, closing, stop_age,
                             audio_queue>>
           \/ \* start_recording raises: ERROR, stop_voice_mode, re-raise
              /\ ~is_recording
              /\ StartFailed(p)

\* multi_context_stream has returned a session.
StartOpened(p) ==
    /\ pc[p] = "start_open"
    /\ opened < MaxSessions
    /\ opened' = opened + 1
    /\ open' = open \cup {opened + 1}
    /\ current_session' = opened + 1
    /\ is_voice_mode_active' = TRUE
    /\ state' = "LISTENING"
    /\ pc' = [pc EXCEPT ![p] = IF p \in Conns THEN "status" ELSE "idle"]
    /\ UNCHANGED <<conversation_context, is_recording, spoken, closing,
                   cancelled, turnVars, stop_age, last_op, audio_queue,
                   timeVars, stale>>

\* multi_context_stream has raised: ERROR, stop_voice_mode, re-raise.
StartOpenFailed(p) ==
    /\ pc[p] = "start_open"
    /\ StartFailed(p)
    /\ UNCHANGED <<current_session, conversation_context, ttsVars, spoken,
                   cancelled, turnVars, timeVars>>

(* -------------------------- the REST endpoints -------------------------- *)

\* POST /voice/start-voice-mode
RestStart(r) ==
    /\ pc[r] = "idle"
    /\ StartBegin(r, "idle")
    /\ UNCHANGED <<current_session, conversation_context, ttsVars, spoken,
                   cancelled, turnVars, timeVars>>

\* POST /voice/stop-voice-mode
RestStop(r) ==
    /\ pc[r] = "idle"
    /\ StopCall(r)
    /\ UNCHANGED <<current_session, conversation_context, ttsVars, spoken,
                   cancelled, turnVars, timeVars>>

(* ------------------------- the /voice/stream handler -------------------- *)

\* accept, get_voice_manager (the process-wide instance), start_voice_mode
Connect(c) ==
    /\ pc[c] = "idle"
    /\ StartBegin(c, "status")
    /\ UNCHANGED <<current_session, conversation_context, ttsVars, spoken,
                   cancelled, turnVars, timeVars>>

\* the initial status event is sent: the callbacks are defined, the
\* conversation task is created and the receive loop entered
StatusSent(c) ==
    /\ pc[c] = "status"
    /\ pc' = [pc EXCEPT ![c] = "serve", ![T(c)] = "created"]
    /\ UNCHANGED <<vmVars, is_recording, ttsVars, spoken, closing, cancelled,
                   turnVars, stop_age, last_op, audio_queue, timeVars>>

\* sending the initial status event raises (the client is gone): the outer
\* except clauses, websocket.close()
StatusFailed(c) ==
    /\ pc[c] = "status"
    /\ pc' = [pc EXCEPT ![c] = "closed"]
    /\ UNCHANGED <<vmVars, is_recording, ttsVars, spoken, closing, cancelled,
                   turnVars, stop_age, last_op, audio_queue, timeVars>>

\* a config message, or a message that raises and whose error event is sent:
\* the receive loop goes on
ServeStay(c) ==
    /\ pc[c] = "serve"
    /\ UNCHANGED vars

\* a stop message, a disconnect, or an error event that cannot be sent: the
\* finally block cancels the conversation task and awaits it
ServeLeave(c) ==
    /\ pc[c] = "serve"
    /\ cancelled' = [cancelled EXCEPT ![c] = (pc[T(c)] # "done")]
    /\ pc' = [pc EXCEPT ![c] = "join"]
    /\ UNCHANGED <<vmVars, is_recording, ttsVars, spoken, closing, turnVars,
                   stop_age, last_op, audio_queue, timeVars>>

\* the awaited conversation task has ended: stop_voice_mode
Join(c) ==
    /\ pc[c] = "join"
    /\ pc[T(c)] = "done"
    /\ StopCall(c)
    /\ UNCHANGED <<current_session, conversation_context, ttsVars, spoken,
                   cancelled, turnVars, timeVars>>

(* ------------------------------- text ---------------------------------- *)

\* str.strip on a text held as a sequence of words and blanks
RECURSIVE LStrip(_)
LStrip(s) == IF s # <<>> /\ Head(s) = SP THEN LStrip(Tail(s)) ELSE s
RECURSIVE RStrip(_)
RStrip(s) ==
    IF s # <<>> /\ s[Len(s)] = SP THEN RStrip(SubSeq(s, 1, Len(s) - 1)) ELSE s
Strip(s) == RStrip(LStrip(s))

\* str.lower on the words of the model
Lower(w) == IF w = "Goodbye" THEN "goodbye" ELSE w

StopPhrases == {"goodbye", "stop conversation", "end voice mode"}

\* any(phrase in user_input.lower() for phrase in stop_phrases)
HasStopPhrase(u) == \E i \in DOMAIN u : Lower(u[i]) \in StopPhrases

\* an entry of conversation_context, stamped with time.time()
Turn(role, text) == [role |-> role, content |-> text, timestamp |-> now]

(* ------------------- continuous_conversation, per task ------------------ *)

\* continuous_conversation after handle_conversation_turn has returned
\* user_input u with the state st: the stop-phrase check, then the finally
\* block's stop_voice_mode or the pacing sleep.
TurnEnd(c, u, st) ==
    /\ full_transcription' = [full_transcription EXCEPT ![c] = <<>>]
    /\ user_input' = [user_input EXCEPT ![c] = <<>>]
    /\ agent_response' = [agent_response EXCEPT ![c] = <<>>]
    /\ websocket' = [websocket EXCEPT ![c] = NoSession]
    /\ IF HasStopPhrase(u)
         THEN StopCall(T(c))
         ELSE /\ state' = st
              /\ pc' = [pc EXCEPT ![T(c)] = "sleep"]
              /\ stop_age' = [stop_age EXCEPT ![c] = 0]
              /\ UNCHANGED <<is_voice_mode_active, is_recording, closing,
                             audio_queue, last_op>>

\* What a step that stays inside handle_conversation_turn may leave alone.
loopVars == <<is_voice_mode_active, is_recording, closing, stop_age, last_op,
              audio_queue>>
localVars == <<full_transcription, user_input, agent_response, websocket>>
seenVars == <<reply_log, speak_exit, speak_path>>

\* The task runs for the first time, or wakes from the pacing sleep: the
\* while test, handle_conversation_turn, listen_for_input up to the first
\* poll of detect_speech_start.
TaskLoop(c) ==
    /\ pc[T(c)] \in {"created", "sleep"}
    /\ ~cancelled[c]
    /\ IF ~is_voice_mode_active
         THEN \* the loop ends: finally, stop_voice_mode
              /\ StopCall(T(c))
              /\ UNCHANGED <<localVars, seenVars>>
         ELSE /\ reply_log' = [reply_log EXCEPT ![c] = <<>>]
              /\ speak_exit' = [speak_exit EXCEPT ![c] = "none"]
              /\ speak_path' = [speak_path EXCEPT ![c] = "none"]
              /\ IF ~is_recording
                   THEN \* detect_speech_start raises RuntimeError,
                        \* listen_for_input catches it: ERROR, "" is returned
                        TurnEnd(c, <<>>, "ERROR")
                   ELSE /\ state' = "LISTENING"
                        /\ pc' = [pc EXCEPT ![T(c)] = "detect"]
                        /\ last_op' = IF speak_path[c] = "gen_raised"
                                         THEN "relisten" ELSE last_op
                        /\ UNCHANGED <<is_voice_mode_active, is_recording,
                                       closing, stop_age, audio_queue,
                                       localVars>>
    /\ UNCHANGED <<current_session, conversation_context, ttsVars, spoken,
                   cancelled>>
    /\ UNCHANGED timeVars

\* detect_speech_start finds a frame above the threshold; listen_for_input
\* enters stream_transcription
SpeechDetected(c) ==
    /\ pc[T(c)] = "detect"
    /\ ~cancelled[c]
    /\ is_recording
    /\ spoken < MaxUtterances
    /\ spoken' = spoken + 1
    /\ pc' = [pc EXCEPT ![T(c)] = "stream"]
    /\ UNCHANGED <<vmVars, ttsVars, cancelled, loopVars, localVars, seenVars>>
    /\ UNCHANGED timeVars

\* A handle_conversation_turn that went on with the empty transcript: the
\* user turn and the Response Generator.
DetectTimedOutGenerates(c) ==
    /\ pc[T(c)] = "detect"
    /\ ~cancelled[c]
    /\ conversation_context' =
          Append(conversation_context, Turn("user", <<>>))
    /\ state' = "PROCESSING"
    /\ pc' = [pc EXCEPT ![T(c)] = "gen"]
    /\ UNCHANGED <<loopVars, localVars>>
    /\ UNCHANGED <<current_session, ttsVars, spoken, cancelled, seenVars>>
    /\ UNCHANGED timeVars

\* detect_speech_start times out after 5 s: listen_for_input returns "",
\* handle_conversation_turn returns the empty result
DetectTimedOut(c) ==
    /\ pc[T(c)] = "detect"
    /\ ~cancelled[c]
    /\ TurnEnd(c, <<>>, state)
    /\ UNCHANGED <<current_session, conversation_context, ttsVars, spoken,
                   cancelled, seenVars>>
    /\ UNCHANGED timeVars

\* A turn that begins the transcript store anew with what the user said.
ProcessOverwrites(c, u) ==
    /\ conversation_context' = <<Turn("user", u)>>
    /\ state' = "PROCESSING"
    /\ full_transcription' = [full_transcription EXCEPT ![c] = <<>>]
    /\ user_input' = [user_input EXCEPT ![c] = u]
    /\ pc' = [pc EXCEPT ![T(c)] = "gen"]

\* listen_for_input after its async for, with a transcript that is not
\* blank: the user turn, then handle_conversation_turn up to the await on the
\* Response Generator.  A blank transcript ends the turn.
Process(c, u) ==
    /\ conversation_context' = Append(conversation_context, Turn("user", u))
    /\ state' = "PROCESSING"
    /\ full_transcription' = [full_transcription EXCEPT ![c] = <<>>]
    /\ user_input' = [user_input EXCEPT ![c] = u]
    /\ pc' = [pc EXCEPT ![T(c)] = "gen"]

\* A listen_for_input that recorded the transcript without testing it.
FinalizeAlways(c, full) ==
    /\ Process(c, Strip(full))
    /\ UNCHANGED <<loopVars, agent_response, websocket>>

\* listen_for_input after its async for: last_user_input is the stripped
\* transcript, recorded and handed on if it is not empty.
Finalize(c, full) ==
    LET u == Strip(full) IN
    IF u = <<>>
      THEN /\ TurnEnd(c, <<>>, state)
           /\ UNCHANGED conversation_context
      ELSE /\ Process(c, u)
           /\ UNCHANGED <<loopVars, agent_response, websocket>>

\* A loop body of listen_for_input that put the fragment in front of the
\* transcript.
FragmentPrepends(c, w, n) ==
    /\ pc[T(c)] = "stream"
    /\ ~cancelled[c]
    /\ is_recording
    /\ Len(full_transcription[c]) < 2 * n
    /\ LET full == <<SP, w>> \o full_transcription[c] IN
         \/ /\ full_transcription' = [full_transcription EXCEPT ![c] = full]
            /\ UNCHANGED <<state, pc, loopVars, conversation_context,
                           user_input, agent_response, websocket>>
         \/ Finalize(c, full)
    /\ UNCHANGED <<current_session, ttsVars, spoken, cancelled, seenVars>>
    /\ UNCHANGED timeVars

\* stream_transcription yields a fragment: the loop body of listen_for_input.
\* The fragment is never blank, so last_speech_time is now and the silence
\* test is false; the overall-timeout test may break the loop.  An utterance
\* is followed for n fragments.
FragmentUpTo(c, w, n) ==
    /\ pc[T(c)] = "stream"
    /\ ~cancelled[c]
    /\ is_recording
    /\ Len(full_transcription[c]) < 2 * n
    /\ LET full == full_transcription[c] \o <<SP, w>> IN
         \/ \* time.time() - start_time <= timeout: the loop goes on
            /\ full_transcription' = [full_transcription EXCEPT ![c] = full]
            /\ UNCHANGED <<state, pc, loopVars, conversation_context,
                           user_input, agent_response, websocket>>
         \/ \* overall timeout reached: break
            Finalize(c, full)
    /\ UNCHANGED <<current_session, ttsVars, spoken, cancelled, seenVars>>
    /\ UNCHANGED timeVars

Fragment(c, w) == FragmentUpTo(c, w, MaxFrags)

\* is_recording went false: the while loop of stream_transcription ends, its
\* finally block transcribes what is left in the buffer and may yield one
\* more fragment; then the generator is exhausted.
StreamEnded(c) ==
    /\ pc[T(c)] = "stream"
    /\ ~cancelled[c]
    /\ ~is_recording
    /\ \/ Finalize(c, full_transcription[c])
       \/ \E w \in Words :
            /\ Len(full_transcription[c]) < 2 * MaxFrags
            /\ Finalize(c, full_transcription[c] \o <<SP, w>>)
    /\ UNCHANGED <<current_session, ttsVars, spoken, cancelled, seenVars>>
    /\ UNCHANGED timeVars

(* ------------------ the Response Generator, speak_response -------------- *)

\* agent_handler yields a fragment: agent_response += response_chunk.  A
\* reply is followed for n fragments that are not empty.
GenChunkUpTo(c, ch, n) ==
    /\ pc[T(c)] = "gen"
    /\ ~cancelled[c]
    /\ Len(agent_response[c]) < n
    /\ agent_response' = [agent_response EXCEPT ![c] = @ \o ch]
    /\ UNCHANGED <<vmVars, ttsVars, spoken, pc, cancelled, loopVars,
                   full_transcription, user_input, websocket, seenVars>>
    /\ UNCHANGED timeVars

GenChunk(c, ch) == GenChunkUpTo(c, ch, MaxReplyChunks)

\* An except clause of handle_conversation_turn that recorded the partial
\* response as an assistant turn.
GenRaisedSpeaksPartial(c) ==
    /\ pc[T(c)] = "gen"
    /\ ~cancelled[c]
    /\ speak_path' = [speak_path EXCEPT ![c] = "gen_raised"]
    /\ conversation_context' =
          Append(conversation_context, Turn("assistant", agent_response[c]))
    /\ TurnEnd(c, <<>>, "ERROR")
    /\ UNCHANGED <<current_session, ttsVars, spoken, cancelled, reply_log,
                   speak_exit>>
    /\ UNCHANGED timeVars

\* The agent_handler that continuous_conversation was given raises: the
\* except clause of handle_conversation_turn sets ERROR and returns the empty
\* result.  (The handler /voice/stream passes catches Exception itself and
\* yields an apology, which is a GenChunk; a handler of another caller of
\* VoiceManager may raise.)
GenRaised(c) ==
    /\ pc[T(c)] = "gen"
    /\ ~cancelled[c]
    /\ speak_path' = [speak_path EXCEPT ![c] = "gen_raised"]
    /\ TurnEnd(c, <<>>, "ERROR")
    /\ UNCHANGED <<current_session, conversation_context, ttsVars, spoken,
                   cancelled, reply_log, speak_exit>>
    /\ UNCHANGED timeVars

\* agent_handler is exhausted.  An empty reply is not spoken.  Without an
\* active session speak_response synthesizes the blob and returns; otherwise
\* it sets SPEAKING and awaits send_text.
GenDone(c) ==
    /\ pc[T(c)] = "gen"
    /\ ~cancelled[c]
    /\ IF agent_response[c] = <<>>
         THEN /\ TurnEnd(c, user_input[c], state)
              /\ UNCHANGED seenVars
         ELSE IF ~is_voice_mode_active \/ current_session = NoSession
           THEN \/ \* tts.synthesize returns: the callback gets the blob
                   /\ reply_log' = [reply_log EXCEPT ![c] = <<"blob">>]
                   /\ speak_exit' = [speak_exit EXCEPT ![c] = state]
                   /\ speak_path' = [speak_path EXCEPT ![c] = "no_session"]
                   /\ TurnEnd(c, user_input[c], state)
                \/ \* tts.synthesize raises, out of speak_response
                   /\ reply_log' = [reply_log EXCEPT ![c] = <<"blob_failed">>]
                   /\ speak_exit' = [speak_exit EXCEPT ![c] = "raised"]
                   /\ speak_path' = [speak_path EXCEPT ![c] = "no_session"]
                   /\ TurnEnd(c, <<>>, "ERROR")
           ELSE /\ state' = "SPEAKING"
                /\ websocket' = [websocket EXCEPT ![c] = current_session]
                /\ pc' = [pc EXCEPT ![T(c)] = "send"]
                /\ UNCHANGED <<loopVars, full_transcription, user_input,
                               agent_response, seenVars>>
    /\ UNCHANGED <<current_session, conversation_context, ttsVars, spoken,
                   cancelled>>
    /\ UNCHANGED timeVars

\* An except clause of speak_response whose fallback is not guarded: the
\* error of tts.synthesize leaves speak_response, and the except clause of
\* handle_conversation_turn returns the empty result.
SpeakFailedRaises(c, why) ==
    /\ reply_log' = [reply_log EXCEPT ![c] = Append(@, "blob_failed")]
    /\ speak_exit' = [speak_exit EXCEPT ![c] = "raised"]
    /\ speak_path' = [speak_path EXCEPT ![c] = why]
    /\ TurnEnd(c, <<>>, "ERROR")
    /\ UNCHANGED conversation_context

\* speak_response's except clause: ERROR, then the blob fallback,
\* tts.synthesize(text) of the whole reply text, which delivers the blob or
\* raises an error that is swallowed; speak_response
\* returns, handle_conversation_turn calls text_callback and returns the
\* turn.  `why` names the statement that raised.
SpeakFailed(c, why) ==
    /\ \/ reply_log' = [reply_log EXCEPT ![c] = Append(@, "blob")]
       \/ reply_log' = [reply_log EXCEPT ![c] = Append(@, "blob_failed")]
    /\ speak_exit' = [speak_exit EXCEPT ![c] = "ERROR"]
    /\ speak_path' = [speak_path EXCEPT ![c] = why]
    /\ TurnEnd(c, user_input[c], "ERROR")
    /\ UNCHANGED conversation_context

\* speak_response after its receive loop: the assistant turn, LISTENING.
\* `why` names what ended the loop.
SpeakFinished(c, why) ==
    /\ speak_path' = [speak_path EXCEPT ![c] = why]
    /\ conversation_context' =
          Append(conversation_context, Turn("assistant", agent_response[c]))
    /\ speak_exit' = [speak_exit EXCEPT ![c] = "LISTENING"]
    /\ TurnEnd(c, user_input[c], "LISTENING")

\* send_text has returned: the websocket of the session that is current now
\* is the one the receive loop reads
SendDone(c) ==
    /\ pc[T(c)] = "send"
    /\ ~cancelled[c]
    /\ websocket[c] \in open
    /\ IF current_session = NoSession
         THEN \* current_session["websocket"] raises TypeError
              SpeakFailed(c, "no_websocket")
         ELSE /\ websocket' = [websocket EXCEPT ![c] = current_session]
              /\ pc' = [pc EXCEPT ![T(c)] = "recv"]
              /\ UNCHANGED <<state, loopVars, conversation_context,
                             full_transcription, user_input, agent_response,
                             seenVars>>
    /\ recv_start' = [recv_start EXCEPT ![c] = now]
    /\ wait_start' = [wait_start EXCEPT ![c] = now]
    /\ UNCHANGED <<current_session, ttsVars, spoken, cancelled>>
    /\ UNCHANGED listenVars

\* send_text raises: the websocket is closed, or the connection drops now
SendRaised(c) ==
    /\ pc[T(c)] = "send"
    /\ ~cancelled[c]
    /\ open' = open \ {websocket[c]}
    /\ stale' = stale \ {websocket[c]}
    /\ SpeakFailed(c, "send_raised")
    /\ UNCHANGED <<current_session, opened, spoken, cancelled>>
    /\ UNCHANGED timeVars

\* websocket.recv returns an audio message, with or without isFinal.  The
\* websocket and the context id are those of every reply of the session, and
\* messages carry no mark of the reply they belong to: on a session with an
\* abandoned reply the message may be a late one of that reply, whose final
\* marker is the last the engine owes for it.
RecvAudio(c, final, late) ==
    /\ pc[T(c)] = "recv"
    /\ ~cancelled[c]
    /\ websocket[c] \in open
    /\ late => websocket[c] \in stale
    /\ Len(reply_log[c]) < MaxAudio
    /\ reply_log' =
          [reply_log EXCEPT
              ![c] = Append(@, IF late THEN "late_chunk" ELSE "chunk")]
    /\ IF final
         THEN /\ SpeakFinished(c, IF late THEN "late_final" ELSE "final")
              /\ stale' = IF late THEN stale \ {websocket[c]} ELSE stale
         ELSE UNCHANGED <<state, pc, loopVars, conversation_context,
                          localVars, speak_exit, speak_path, stale>>
    /\ wait_start' = [wait_start EXCEPT ![c] = now]
    /\ UNCHANGED <<current_session, open, opened, spoken, cancelled>>
    /\ UNCHANGED <<listenVars, recv_start>>

\* websocket.recv returns a message with isFinal and no audio, of this
\* reply or a late one of an abandoned reply
RecvFinal(c, late) ==
    /\ pc[T(c)] = "recv"
    /\ ~cancelled[c]
    /\ websocket[c] \in open
    /\ late => websocket[c] \in stale
    /\ SpeakFinished(c, IF late THEN "late_final" ELSE "final")
    /\ stale' = IF late THEN stale \ {websocket[c]} ELSE stale
    /\ UNCHANGED <<current_session, open, opened, spoken, cancelled,
                   reply_log>>
    /\ UNCHANGED timeVars

\* websocket.recv returns text that is not JSON: JSONDecodeError, continue
\* with a new wait_for
RecvMalformed(c) ==
    /\ pc[T(c)] = "recv"
    /\ ~cancelled[c]
    /\ websocket[c] \in open
    /\ Len(reply_log[c]) < MaxAudio
    /\ reply_log' = [reply_log EXCEPT ![c] = Append(@, "bad")]
    /\ wait_start' = [wait_start EXCEPT ![c] = now]
    /\ UNCHANGED <<vmVars, ttsVars, spoken, pc, cancelled, loopVars, localVars,
                   speak_exit, speak_path>>
    /\ UNCHANGED <<listenVars, recv_start>>

\* A handler of TimeoutError that went on with the loop.
RecvTimedOutContinues(c) ==
    /\ pc[T(c)] = "recv"
    /\ ~cancelled[c]
    /\ websocket[c] \in open
    /\ wait_start' = [wait_start EXCEPT ![c] = now]
    /\ UNCHANGED <<vmVars, is_recording, ttsVars, spoken, pc, closing,
                   cancelled, turnVars, stop_age, last_op, audio_queue,
                   listenVars, recv_start>>

\* asyncio.wait_for gives up after 5 s: TimeoutError, break.  What the
\* engine still sends for this reply stays on the websocket.
RecvTimedOut(c) ==
    /\ pc[T(c)] = "recv"
    /\ ~cancelled[c]
    /\ websocket[c] \in open
    /\ SpeakFinished(c, "timeout")
    /\ stale' = stale \cup {websocket[c]}
    /\ UNCHANGED <<current_session, open, opened, spoken, cancelled,
                   reply_log>>
    /\ UNCHANGED timeVars

\* websocket.recv raises ConnectionClosed: the websocket was closed by a
\* stop_voice_mode, or the connection drops now
RecvRaised(c) ==
    /\ pc[T(c)] = "recv"
    /\ ~cancelled[c]
    /\ open' = open \ {websocket[c]}
    /\ stale' = stale \ {websocket[c]}
    /\ SpeakFailed(c, "recv_raised")
    /\ UNCHANGED <<current_session, opened, spoken, cancelled>>
    /\ UNCHANGED timeVars

\* websocket.recv returns JSON that is no object, so that data.get raises,
\* or an audio message that b64decode or the audio callback rejects.  The
\* rest of the reply stays on the websocket.
RecvNotObject(c) ==
    /\ pc[T(c)] = "recv"
    /\ ~cancelled[c]
    /\ websocket[c] \in open
    /\ SpeakFailed(c, "not_object")
    /\ stale' = stale \cup {websocket[c]}
    /\ UNCHANGED <<current_session, open, opened, spoken, cancelled>>
    /\ UNCHANGED timeVars

(* ------------------------------ cancellation ---------------------------- *)

\* conversation_task.cancel() reaches the task.  A task that never ran ends
\* at once.  At an await inside a turn or at the pacing sleep CancelledError
\* passes every `except Exception` and the finally block runs
\* stop_voice_mode.  At the await on close() inside that stop_voice_mode it
\* leaves close() and stop_voice_mode: the session stays current, its
\* websocket closed or not.
TaskCancelled(c) ==
    /\ cancelled[c]
    /\ cancelled' = [cancelled EXCEPT ![c] = FALSE]
    /\ \/ /\ pc[T(c)] = "created"
          /\ pc' = [pc EXCEPT ![T(c)] = "done"]
          /\ stop_age' = [stop_age EXCEPT ![c] = 0]
          /\ UNCHANGED <<state, is_voice_mode_active, is_recording, closing,
                         open, stale, audio_queue, last_op>>
       \/ /\ pc[T(c)] \in {"detect", "stream", "gen", "send", "recv", "sleep"}
          /\ StopCall(T(c))
          /\ UNCHANGED <<open, stale>>
       \/ /\ pc[T(c)] = "stop_close"
          /\ pc' = [pc EXCEPT ![T(c)] = "done"]
          /\ closing' = [closing EXCEPT ![T(c)] = NoSession]
          /\ \/ UNCHANGED <<open, stale>>
             \/ /\ open' = open \ {closing[T(c)]}
                /\ stale' = stale \ {closing[T(c)]}
          /\ stop_age' = [stop_age EXCEPT ![c] = 0]
          /\ UNCHANGED <<state, is_voice_mode_active, is_recording,
                         audio_queue, last_op>>
    /\ full_transcription' = [full_transcription EXCEPT ![c] = <<>>]
    /\ user_input' = [user_input EXCEPT ![c] = <<>>]
    /\ agent_response' = [agent_response EXCEPT ![c] = <<>>]
    /\ websocket' = [websocket EXCEPT ![c] = NoSession]
    /\ UNCHANGED <<current_session, conversation_context, opened, spoken,
                   seenVars>>
    /\ UNCHANGED timeVars

(* ------------- listen_for_input against the clock: SpecListen ----------- *)

NoText == ""

\* A silence test that only an empty buffer passes.
SilentOnlyEmpty(buf) ==
    buf = <<>>

\* np.max(np.abs(audio_float)) < self.silence_threshold
Silent(buf) ==
    \A i \in DOMAIN buf : buf[i] < Threshold

\* Whether transcribe_audio gets past its two early returns to
\* model.transcribe: the buffer is neither too short nor silent.
EngineCalled(buf) == buf # <<>> /\ ~Silent(buf)

\* What model.transcribe does with a buffer: it returns segments with text
\* or with none, or it raises.
Raises == "raises"
EngineResults == Words \cup {NoText, Raises}

\* A transcribe_audio that returns a text for the buffer the engine raised on.
TranscribeAudioKeepsText(buf, res) ==
    IF ~EngineCalled(buf) THEN NoText
    ELSE IF res = Raises THEN "hi" ELSE res

\* transcribe_audio, given what the engine does: "" for a buffer that is too
\* short or silent, "" from the except clause when the engine raises, else
\* the stripped text of the engine, which may be empty.
TranscribeAudio(buf, res) ==
    IF ~EngineCalled(buf) \/ res = Raises THEN NoText ELSE res

\* What transcribe_audio can return for the buffer.
Transcribe(buf) == {TranscribeAudio(buf, res) : res \in EngineResults}

\* the frames below the activation threshold
Quiet == {a \in Levels : a < Threshold}

\* The capture callback, in the audio thread: one frame per second here.
AudioCallback(a) ==
    /\ is_recording
    /\ ~captured
    /\ audio_queue' = Append(audio_queue, a)
    /\ captured' = TRUE
    /\ UNCHANGED <<vmVars, is_recording, ttsVars, spoken, pc, closing,
                   cancelled, turnVars, stop_age, last_op, audio_buffer,
                   last_process_time, start_time, detect_start,
                   last_speech_time, now, polled, speakVars, engineVars>>

\* A second passes.  Both poll loops sleep 0.01 s, so each has run since the
\* last second; an open capture stream has delivered its frame.  The clock
\* is followed while listen_for_input is in flight.
ClockTick ==
    /\ now < MaxTime
    /\ pc[T(1)] \in {"detect", "stream"}
    /\ polled
    /\ is_recording => captured
    /\ now' = now + 1
    /\ polled' = FALSE
    /\ captured' = FALSE
    /\ UNCHANGED <<vmVars, is_recording, ttsVars, spoken, pc, closing,
                   cancelled, turnVars, stop_age, last_op, audio_queue,
                   audio_buffer, last_process_time, start_time, detect_start,
                   last_speech_time, speakVars, engineVars>>

\* A detect_speech_start that leaves the frame it found speech in to
\* stream_transcription.
DetectBodyKeepsFrame(c) ==
    IF audio_queue # <<>> /\ Head(audio_queue) > Threshold
      THEN /\ pc' = [pc EXCEPT ![T(c)] = "stream"]
           /\ last_speech_time' = now
           /\ audio_buffer' = audio_queue
           /\ audio_queue' = <<>>
           /\ last_process_time' = now
           /\ polled' = TRUE
      ELSE /\ pc' = [pc EXCEPT ![T(c)] = "detect"]
           /\ audio_queue' = IF audio_queue = <<>> THEN <<>>
                                                   ELSE Tail(audio_queue)
           /\ polled' = TRUE
           /\ UNCHANGED <<audio_buffer, last_process_time, last_speech_time>>

\* One pass of the loop of detect_speech_start: at most one frame is taken
\* from the queue.  A frame above the threshold ends the call; then
\* listen_for_input sets last_speech_time and stream_transcription runs to
\* its first sleep, which moves the rest of the queue into its buffer.
DetectBody(c) ==
    IF audio_queue # <<>> /\ Head(audio_queue) > Threshold
      THEN /\ pc' = [pc EXCEPT ![T(c)] = "stream"]
           /\ last_speech_time' = now
           /\ audio_buffer' = Tail(audio_queue)
           /\ audio_queue' = <<>>
           /\ last_process_time' = now
           /\ polled' = TRUE
      ELSE /\ pc' = [pc EXCEPT ![T(c)] = "detect"]
           /\ audio_queue' = IF audio_queue = <<>> THEN <<>>
                                                   ELSE Tail(audio_queue)
           /\ polled' = TRUE
           /\ UNCHANGED <<audio_buffer, last_process_time, last_speech_time>>

\* The conversation task runs for the first time or wakes from the pacing
\* sleep: the while test, handle_conversation_turn, listen_for_input up to
\* the first sleep of a poll loop.  A generator the turn before left by
\* break has been closed while the task slept.
ListenStart(c) ==
    /\ pc[T(c)] \in {"created", "sleep"}
    /\ ~cancelled[c]
    /\ audio_buffer = <<>>
    /\ IF ~is_voice_mode_active
         THEN /\ StopCall(T(c))
              /\ UNCHANGED <<localVars, seenVars, listenVars>>
         ELSE /\ reply_log' = [reply_log EXCEPT ![c] = <<>>]
              /\ speak_exit' = [speak_exit EXCEPT ![c] = "none"]
              /\ speak_path' = [speak_path EXCEPT ![c] = "none"]
              /\ start_time' = now
              /\ IF ~is_recording
                   THEN /\ TurnEnd(c, <<>>, "ERROR")
                        /\ UNCHANGED <<audio_buffer, last_process_time,
                                       detect_start, last_speech_time, polled>>
                   ELSE /\ state' = "LISTENING"
                        /\ detect_start' = now
                        /\ DetectBody(c)
                        /\ UNCHANGED <<is_voice_mode_active, is_recording,
                                       closing, stop_age, last_op, localVars>>
              /\ UNCHANGED <<now, captured, engineVars>>
    /\ UNCHANGED <<current_session, conversation_context, ttsVars, spoken,
                   cancelled, speakVars>>

\* A listen_for_input that took the timeout of detect_speech_start for an
\* error.
DetectPollTimeoutIsError(c) ==
    /\ pc[T(c)] = "detect"
    /\ ~cancelled[c]
    /\ IF now - detect_start < DetectTimeout
         THEN /\ DetectBody(c)
              /\ UNCHANGED <<state, is_voice_mode_active, is_recording,
                             closing, stop_age, last_op, localVars>>
         ELSE /\ TurnEnd(c, <<>>, "ERROR")
              /\ UNCHANGED <<audio_buffer, last_process_time,
                             last_speech_time, polled>>
    /\ UNCHANGED <<current_session, conversation_context, ttsVars, spoken,
                   cancelled, seenVars, start_time, detect_start, now,
                   captured, speakVars, engineVars>>

\* stream_transcription is called on its own, as the public coroutine of
\* WhisperSTT it is, while the capture runs: it runs to its first sleep.
StreamDirect(c) ==
    /\ pc[T(c)] = "created"
    /\ ~cancelled[c]
    /\ is_recording
    /\ pc' = [pc EXCEPT ![T(c)] = "stream"]
    /\ audio_buffer' = audio_queue
    /\ audio_queue' = <<>>
    /\ last_process_time' = now
    /\ polled' = TRUE
    /\ UNCHANGED <<vmVars, is_recording, ttsVars, spoken, closing, cancelled,
                   turnVars, stop_age, last_op, start_time, detect_start,
                   last_speech_time, now, captured, speakVars, engineVars>>

\* detect_speech_start wakes from its sleep: the loop test, then one pass or
\* the timeout, on which listen_for_input returns "".
DetectPoll(c) ==
    /\ pc[T(c)] = "detect"
    /\ ~cancelled[c]
    /\ IF now - detect_start < DetectTimeout
         THEN /\ DetectBody(c)
              /\ UNCHANGED <<state, is_voice_mode_active, is_recording,
                             closing, stop_age, last_op, localVars>>
         ELSE /\ TurnEnd(c, <<>>, state)
              /\ UNCHANGED <<audio_buffer, last_process_time,
                             last_speech_time, polled>>
    /\ UNCHANGED <<current_session, conversation_context, ttsVars, spoken,
                   cancelled, seenVars, start_time, detect_start, now,
                   captured, speakVars, engineVars>>

\* stream_transcription wakes from its sleep while is_recording holds: the
\* queue is moved into the buffer; when chunk_duration has passed and the
\* buffer is not empty it is transcribed, a text that is not empty is
\* yielded, and the loop body of listen_for_input runs with its two tests.
\* The buffer and the timer are reset when the generator is resumed after
\* its yield: on break it is not resumed and keeps the buffer it yielded for.
StreamPollOn(c, res) ==
    /\ pc[T(c)] = "stream"
    /\ ~cancelled[c]
    /\ is_recording
    /\ audio_queue' = <<>>
    /\ polled' = TRUE
    /\ LET buf == audio_buffer \o audio_queue IN
       IF now - last_process_time >= ChunkDuration /\ buf # <<>>
         THEN LET text == TranscribeAudio(buf, res) IN
                /\ text # NoText => Len(full_transcription[c]) < 2 * MaxFrags
                /\ buffer_calls' = IF EngineCalled(buf) THEN 1
                                                        ELSE buffer_calls
                /\ raised_at' = IF EngineCalled(buf) /\ res = Raises
                                  THEN now ELSE raised_at
                /\ IF text = NoText
                     THEN /\ audio_buffer' = <<>>
                          /\ last_process_time' = now
                          /\ UNCHANGED <<state, pc, conversation_context,
                                         localVars, last_speech_time>>
                     ELSE LET full == full_transcription[c] \o <<SP, text>> IN
                          /\ last_speech_time' = now
                          /\ IF \/ now - last_speech_time' > MaxSilence
                                \/ now - start_time > ResponseTimeout
                               THEN \* break: full is not blank
                                    /\ audio_buffer' = buf
                                    /\ Process(c, Strip(full))
                                    /\ UNCHANGED <<agent_response, websocket,
                                                   last_process_time>>
                               ELSE /\ audio_buffer' = <<>>
                                    /\ last_process_time' = now
                                    /\ full_transcription' =
                                         [full_transcription EXCEPT ![c] = full]
                                    /\ UNCHANGED <<state, pc,
                                                   conversation_context,
                                                   user_input, agent_response,
                                                   websocket>>
         ELSE /\ audio_buffer' = buf
              /\ UNCHANGED <<state, pc, conversation_context, localVars,
                             last_process_time, last_speech_time,
                             engineVars>>
    /\ UNCHANGED <<is_voice_mode_active, current_session, is_recording,
                   ttsVars, spoken, closing, cancelled, seenVars, stop_age,
                   last_op, start_time, detect_start, now, captured,
                   speakVars>>

\* One pass of the loop, whatever the engine does.
StreamPoll(c) == \E res \in EngineResults : StreamPollOn(c, res)

\* stream_transcription wakes from its sleep and is_recording is false: the
\* finally block transcribes the buffer and may yield one more text, the
\* generator ends and listen_for_input finalizes.
StreamStop(c) ==
    /\ pc[T(c)] = "stream"
    /\ ~cancelled[c]
    /\ ~is_recording
    /\ \E text \in Transcribe(audio_buffer) :
         /\ text # NoText => Len(full_transcription[c]) < 2 * MaxFrags
         /\ IF text = NoText
              THEN /\ Finalize(c, full_transcription[c])
                   /\ UNCHANGED last_speech_time
              ELSE /\ Finalize(c, full_transcription[c] \o <<SP, text>>)
                   /\ last_speech_time' = now
    /\ buffer_calls' = IF EngineCalled(audio_buffer) THEN 1 ELSE buffer_calls
    /\ audio_buffer' = <<>>
    /\ UNCHANGED <<current_session, ttsVars, spoken, cancelled, seenVars,
                   last_process_time, start_time, detect_start, now, polled,
                   captured, speakVars, raised_at>>

\* The generator that listen_for_input left by break is closed by the event
\* loop before the task runs again after its next suspension: GeneratorExit
\* is raised at the yield, which no except clause of stream_transcription
\* catches, and the finally block transcribes the buffer that was not reset.
\* The text is not delivered: a yield while closing makes aclose() fail.
StreamClosed(c) ==
    /\ pc[T(c)] \notin {"detect", "stream"}
    /\ audio_buffer # <<>>
    /\ buffer_calls' = IF EngineCalled(audio_buffer) THEN buffer_calls + 1
                                                     ELSE buffer_calls
    /\ audio_buffer' = <<>>
    /\ UNCHANGED <<vmVars, is_recording, ttsVars, spoken, pc, closing,
                   cancelled, turnVars, stop_age, last_op, audio_queue,
                   last_process_time, start_time, detect_start,
                   last_speech_time, now, polled, captured, speakVars,
                   raised_at>>

(* ------------- the capture of WhisperSTT by itself: SpecCapture --------- *)

\* What the steps of the capture leave alone.
sttFrame == <<vmVars, ttsVars, spoken, closing, cancelled, turnVars, stop_age,
              last_op, timeVars>>

\* _audio_callback tests is_recording, in the audio thread.  A callback that
\* finds it false puts nothing.
CallbackCheck ==
    /\ pc[AudioThread] = "idle"
    /\ is_recording
    /\ Len(audio_queue) < MaxQueued
    /\ pc' = [pc EXCEPT ![AudioThread] = "put"]
    /\ UNCHANGED <<sttFrame, is_recording, audio_queue>>

\* _audio_callback puts its frame: the queue is unbounded, nothing is dropped
CallbackPut(a) ==
    /\ pc[AudioThread] = "put"
    /\ audio_queue' = Append(audio_queue, a)
    /\ pc' = [pc EXCEPT ![AudioThread] = "idle"]
    /\ UNCHANGED <<sttFrame, is_recording>>

\* stop_recording up to audio_stream.stop_stream()
StopRecordingBegin(r) ==
    /\ pc[r] = "idle"
    /\ is_recording' = FALSE
    /\ pc' = [pc EXCEPT ![r] = "stop_stream"]
    /\ UNCHANGED <<sttFrame, audio_queue>>

\* stop_stream returns, which it does when no callback is running any more;
\* close, terminate, and the queue is emptied
StreamStopped(r) ==
    /\ pc[r] = "stop_stream"
    /\ pc[AudioThread] = "idle"
    /\ audio_queue' = <<>>
    /\ pc' = [pc EXCEPT ![r] = "idle"]
    /\ UNCHANGED <<sttFrame, is_recording>>

\* stop_stream, close or terminate raises: the except clause logs the error
\* and stop_recording returns
StreamStopFailed(r) ==
    /\ pc[r] = "stop_stream"
    /\ pc' = [pc EXCEPT ![r] = "idle"]
    /\ UNCHANGED <<sttFrame, is_recording, audio_queue>>

\* start_recording while not recording: the stream is opened
StartRecording(r) ==
    /\ pc[r] = "idle"
    /\ ~is_recording
    /\ is_recording' = TRUE
    /\ UNCHANGED <<sttFrame, pc, audio_queue>>

(* -------------- speak_response against the clock: SpecSpeak ------------- *)

\* The timer of wait_for(websocket.recv(), timeout=5.0) expires.
RecvTimedOutAt(c) ==
    /\ now - wait_start[c] >= ChunkTimeout
    /\ RecvTimedOut(c)

\* A second passes while speak_response waits in wait_for, whose timer has
\* not expired.
SpeakTick ==
    /\ now < MaxTime
    /\ \E c \in Conns : pc[T(c)] = "recv"
    /\ \A c \in Conns :
          pc[T(c)] = "recv" => now - wait_start[c] < ChunkTimeout
    /\ now' = now + 1
    /\ UNCHANGED <<vmVars, is_recording, ttsVars, spoken, pc, closing,
                   cancelled, turnVars, stop_age, last_op, audio_queue,
                   audio_buffer, last_process_time, start_time, detect_start,
                   last_speech_time, polled, captured, speakVars,
                   engineVars>>

(* ------------------ waiting after a stop_voice_mode call ---------------- *)

\* Whether the turn of connection c can stay suspended for another second.
\* Nothing bounds the await on the Response Generator, and stop_voice_mode
\* cancels no task.  detect_speech_start polls until its 5 s are over,
\* stream_transcription while is_recording holds, websocket.recv until
\* wait_for gives up or the websocket is closed.  send_text and a cancelled
\* task do not wait.
CanWait(c) ==
    /\ ~cancelled[c]
    /\ \/ pc[T(c)] = "gen"
       \/ pc[T(c)] = "detect" /\ stop_age[c] <= DetectTimeout
       \/ pc[T(c)] = "stream" /\ is_recording
       \/ pc[T(c)] = "recv" /\ websocket[c] \in open
                            /\ stop_age[c] <= ChunkTimeout

\* A second passes while a turn that a stop_voice_mode call found in flight
\* is still suspended.  stop_age is one more than the seconds passed.
Tick ==
    /\ \E c \in Conns : stop_age[c] > 0
    /\ \A c \in Conns : stop_age[c] > 0 =>
                            CanWait(c) /\ stop_age[c] <= ChunkTimeout + MaxOver
    /\ stop_age' = [c \in Conns |->
                       IF stop_age[c] > 0 THEN stop_age[c] + 1 ELSE 0]
    /\ UNCHANGED <<vmVars, is_recording, ttsVars, spoken, pc, closing,
                   cancelled, turnVars, audio_queue, last_op, timeVars>>

(* ------------------------------ specification --------------------------- *)

\* The steps of connection c: its handler and its conversation task.
ConnNext(c) ==
    \/ Connect(c) \/ StatusSent(c) \/ StatusFailed(c)
    \/ ServeStay(c) \/ ServeLeave(c) \/ Join(c)
    \/ StartOpened(c) \/ StartOpenFailed(c)
    \/ StopDone(c) \/ StopDone(T(c))
    \/ TaskLoop(c) \/ SpeechDetected(c) \/ DetectTimedOut(c)
    \/ (\E w \in Words : Fragment(c, w)) \/ StreamEnded(c)
    \/ (\E ch \in ReplyChunks : GenChunk(c, ch))
    \/ GenRaised(c) \/ GenDone(c)
    \/ SendDone(c) \/ SendRaised(c)
    \/ (\E f, late \in BOOLEAN : RecvAudio(c, f, late))
    \/ (\E late \in BOOLEAN : RecvFinal(c, late))
    \/ RecvMalformed(c) \/ RecvTimedOut(c) \/ RecvRaised(c)
    \/ RecvNotObject(c)
    \/ TaskCancelled(c)

\* The steps of a caller of the REST endpoints.
RestNext(r) ==
    \/ RestStart(r) \/ RestStop(r)
    \/ StartOpened(r) \/ StartOpenFailed(r) \/ StopDone(r)

\* One client of /voice/stream and the REST endpoints.
Next == ConnNext(1) \/ (\E r \in Rest : RestNext(r)) \/ Tick

Spec == Init /\ [][Next]_vars

\* Two clients of /voice/stream on the process-wide VoiceManager.
NextShared == \E c \in Conns : ConnNext(c)

SpecShared == Init /\ [][NextShared]_vars

\* The state after the client of connection 1 has started voice mode and its
\* conversation task is created.
InitListen ==
    /\ state = "LISTENING"
    /\ is_voice_mode_active = TRUE
    /\ current_session = 1
    /\ conversation_context = <<>>
    /\ is_recording = TRUE
    /\ open = {1}
    /\ opened = 1
    /\ stale = {}
    /\ spoken = 0
    /\ pc = [p \in Procs |-> IF p = 1 THEN "serve"
                             ELSE IF p = T(1) THEN "created"
                             ELSE IF p \in Tasks THEN "none" ELSE "idle"]
    /\ closing = [p \in Procs |-> NoSession]
    /\ cancelled = [c \in Conns |-> FALSE]
    /\ full_transcription = [c \in Conns |-> <<>>]
    /\ user_input = [c \in Conns |-> <<>>]
    /\ agent_response = [c \in Conns |-> <<>>]
    /\ websocket = [c \in Conns |-> NoSession]
    /\ reply_log = [c \in Conns |-> <<>>]
    /\ speak_exit = [c \in Conns |-> "none"]
    /\ speak_path = [c \in Conns |-> "none"]
    /\ stop_age = [c \in Conns |-> 0]
    /\ last_op = "none"
    /\ audio_queue = <<>>
    /\ audio_buffer = <<>>
    /\ last_process_time = 0
    /\ start_time = 0
    /\ detect_start = 0
    /\ last_speech_time = 0
    /\ now = 0
    /\ polled = FALSE
    /\ captured = FALSE
    /\ recv_start = [c \in Conns |-> 0]
    /\ wait_start = [c \in Conns |-> 0]
    /\ buffer_calls = 0
    /\ raised_at = 0

\* One client of /voice/stream listening, the capture thread, the clock, a
\* Response Generator that raises or yields nothing, and a caller of the
\* REST stop endpoint.
NextListen ==
    \/ ClockTick
    \/ (\E a \in Levels : AudioCallback(a))
    \/ ListenStart(1) \/ DetectPoll(1) \/ StreamPoll(1) \/ StreamStop(1)
    \/ StreamClosed(1)
    \/ GenRaised(1) \/ GenDone(1)
    \/ (\E r \in Rest : RestStop(r) \/ StopDone(r))
    \/ StopDone(T(1))

SpecListen == InitListen /\ [][NextListen]_vars

\* start_recording and stop_recording of a caller and the audio thread.
NextCapture ==
    \/ CallbackCheck
    \/ (\E a \in Levels : CallbackPut(a))
    \/ (\E r \in Rest : \/ StopRecordingBegin(r)
                         \/ StreamStopped(r)
                         \/ StreamStopFailed(r)
                         \/ StartRecording(r))

SpecCapture == InitListen /\ [][NextCapture]_vars

\* listen_for_input and stream_transcription with a capture that delivers
\* only frames below the activation threshold.
NextQuiet ==
    \/ ClockTick
    \/ (\E a \in Quiet : AudioCallback(a))
    \/ ListenStart(1) \/ DetectPoll(1)
    \/ StreamDirect(1) \/ StreamPoll(1) \/ StreamStop(1)
    \/ (\E r \in Rest : RestStop(r) \/ StopDone(r))
    \/ StopDone(T(1))

SpecQuiet == InitListen /\ [][NextQuiet]_vars

\* The state after the client of connection 1 has started voice mode and
\* the first turn of its conversation task has recorded what the user said.
InitSpeak ==
    /\ state = "PROCESSING"
    /\ is_voice_mode_active = TRUE
    /\ current_session = 1
    /\ conversation_context =
          << [role |-> "user", content |-> <<"hi">>, timestamp |-> 0] >>
    /\ is_recording = TRUE
    /\ open = {1}
    /\ opened = 1
    /\ stale = {}
    /\ spoken = 1
    /\ pc = [p \in Procs |-> IF p = 1 THEN "serve"
                             ELSE IF p = T(1) THEN "gen"
                             ELSE IF p \in Tasks THEN "none" ELSE "idle"]
    /\ closing = [p \in Procs |-> NoSession]
    /\ cancelled = [c \in Conns |-> FALSE]
    /\ full_transcription = [c \in Conns |-> <<>>]
    /\ user_input = [c \in Conns |-> IF c = 1 THEN <<"hi">> ELSE <<>>]
    /\ agent_response = [c \in Conns |-> <<>>]
    /\ websocket = [c \in Conns |-> NoSession]
    /\ reply_log = [c \in Conns |-> <<>>]
    /\ speak_exit = [c \in Conns |-> "none"]
    /\ speak_path = [c \in Conns |-> "none"]
    /\ stop_age = [c \in Conns |-> 0]
    /\ last_op = "none"
    /\ audio_queue = <<>>
    /\ audio_buffer = <<>>
    /\ last_process_time = 0
    /\ start_time = 0
    /\ detect_start = 0
    /\ last_speech_time = 0
    /\ now = 0
    /\ polled = FALSE
    /\ captured = FALSE
    /\ recv_start = [c \in Conns |-> 0]
    /\ wait_start = [c \in Conns |-> 0]
    /\ buffer_calls = 0
    /\ raised_at = 0

\* The reply of one turn of the client of /voice/stream and the clock.
NextSpeak ==
    \/ (\E ch \in ReplyChunks : GenChunk(1, ch)) \/ GenDone(1)
    \/ SendDone(1) \/ SendRaised(1)
    \/ (\E f \in BOOLEAN : RecvAudio(1, f, FALSE)) \/ RecvFinal(1, FALSE)
    \/ RecvMalformed(1) \/ RecvTimedOutAt(1) \/ RecvRaised(1)
    \/ RecvNotObject(1)
    \/ SpeakTick

SpecSpeak == InitSpeak /\ [][NextSpeak]_vars

\* The turns of one client of /voice/stream whose capture, Response
\* Generator and synthesis session work, with longer utterances and replies.
NextTurn ==
    \/ TaskLoop(1) \/ SpeechDetected(1) \/ DetectTimedOut(1)
    \/ (\E w \in Words : FragmentUpTo(1, w, TurnFrags))
    \/ (\E ch \in TurnReplies : GenChunkUpTo(1, ch, TurnChunks))
    \/ GenDone(1) \/ SendDone(1)
    \/ (\E f \in BOOLEAN : RecvAudio(1, f, FALSE)) \/ RecvFinal(1, FALSE)
    \/ RecvMalformed(1)
    \/ StopDone(T(1))

SpecTurn == InitListen /\ [][NextTurn]_vars

(* -------------------------------- claims -------------------------------- *)

\* whether speak_response of connection c met or delivered e
InLog(c, e) == \E i \in DOMAIN reply_log[c] : reply_log[c][i] = e

\* the fragments a transcript was built from, and " ".join of fragments
Frags(text) == SelectSeq(text, LAMBDA e : e # SP)
RECURSIVE JoinSp(_)
JoinSp(fs) ==
    IF Len(fs) <= 1 THEN fs ELSE <<Head(fs), SP>> \o JoinSp(Tail(fs))

\* how many blobs the audio callback of connection c got for the reply
Blobs(c) == Cardinality({i \in DOMAIN reply_log[c] : reply_log[c][i] = "blob"})

\* C1: once speech has started, listen_for_input does not stay in its
\* transcription loop after a poll at which more than max_silence_duration
\* has passed since the last fragment: it has finalized by then, also when
\* no further fragment arrives.
C1_SilenceFinalizes ==
    (pc[T(1)] = "stream" /\ polled /\ is_recording)
        => now - last_speech_time <= MaxSilence

\* C2: a listen_for_input call in which speech was detected is not still in
\* its transcription loop after a poll later than response_timeout after the
\* call began, whatever fragments arrive, none included.
C2_HardCeiling ==
    (pc[T(1)] = "stream" /\ polled) => now - start_time <= ResponseTimeout

\* C3: the roles in conversation_context alternate user, assistant, user,
\* assistant, ... after any sequence of turns.
C3_TurnsAlternate ==
    \A i \in DOMAIN conversation_context :
        conversation_context[i].role =
            IF i % 2 = 1 THEN "user" ELSE "assistant"

\* C4: from a stop_voice_mode call until the next start_voice_mode has
\* opened its session the state is IDLE: the operation that was in flight
\* does not move it when it completes.
C4_StoppedIsIdle == ~is_voice_mode_active => state = "IDLE"

\* C5: when the first websocket.recv of speak_response raises and the blob
\* synthesize call works, the audio callback gets the blob and the state is
\* LISTENING when speak_response returns.
C5_FallbackLaw ==
    \A c \in Conns :
        (/\ speak_path[c] = "recv_raised"
         /\ ~InLog(c, "chunk") /\ ~InLog(c, "late_chunk") /\ ~InLog(c, "bad")
         /\ ~InLog(c, "blob_failed"))
            => (InLog(c, "blob") /\ speak_exit[c] = "LISTENING")

\* C6: a speak_response that met a connection drop, a message that is not
\* JSON, or a per-chunk receive timeout has delivered exactly one blob to the
\* audio callback when it returns (the blob synthesize call working).
C6_FallbackOnEveryFailure ==
    \A c \in Conns :
        (/\ speak_path[c] # "none"
         /\ \/ speak_path[c] \in {"recv_raised", "timeout"}
            \/ InLog(c, "bad")
         /\ ~InLog(c, "blob_failed"))
            => Blobs(c) = 1

\* C7: at most one synthesis session is open, and an open session is the
\* one current_session refers to.
C7_OneOpenContext ==
    /\ Cardinality(open) <= 1
    /\ open \subseteq {current_session}

\* C8: at most one connection has a conversation turn in flight on the
\* VoiceManager.
C8_ExclusiveOwnership ==
    Cardinality({c \in Conns : pc[T(c)] \in InTurn}) <= 1

\* C9: a turn that a stop_voice_mode call found suspended returns within the
\* per-chunk timeout: it is never still suspended more than ChunkTimeout
\* seconds after the call.
C9_StopUnblocks ==
    \A c \in Conns : stop_age[c] <= ChunkTimeout + 1

\* C10: the state leaves ERROR only for IDLE, with capture stopped and no
\* synthesis session left.
C10_ErrorLeadsToIdle ==
    [][(state = "ERROR" /\ state' # "ERROR")
          => (state' = "IDLE" /\ ~is_recording')]_vars

\* C11: a stop_voice_mode call that follows a completed one returns at
\* once, without error, with state IDLE, is_voice_mode_active false and
\* current_session None; it stops no capture and awaits no close, so no
\* second close reaches the synthesis session.
C11_StopIdempotent ==
    [][\A p \in Procs :
         (Stopped /\ StopCall(p)) =>
            /\ state' = "IDLE"
            /\ ~is_voice_mode_active'
            /\ current_session' = NoSession
            /\ ~is_recording'
            /\ pc'[p] = Returned(p)
            /\ closing' = closing]_vars

\* a session was opened and closed, and stop_voice_mode was called again
C11_Witness ==
    /\ last_op = "stop_again"
    /\ opened > 0 /\ open = {}
    /\ state = "IDLE" /\ Stopped

\* C12: while a stop_voice_mode call is still closing the synthesis
\* session, the state is not IDLE yet.
C12_StopOrdering ==
    \A p \in Procs :
        (pc[p] = "stop_close" /\ closing[p] \in open) => state # "IDLE"

\* C13: when start_recording or multi_context_stream fails, start_voice_mode
\* leaves state IDLE (ERROR is set and replaced within the same step),
\* is_voice_mode_active false and capture stopped, and control leaves the
\* caller's normal path; current_session is None, or the session another
\* call had opened is being closed.
C13_StartFailure ==
    [][\A p \in Conns \cup Rest :
         StartFailed(p) =>
            /\ state' = "IDLE"
            /\ ~is_voice_mode_active'
            /\ ~is_recording'
            /\ IF current_session = NoSession
                 THEN pc'[p] = Returned(p) /\ current_session' = NoSession
                 ELSE pc'[p] = "stop_close"
                      /\ closing'[p] = current_session]_vars

\* a start_voice_mode call has failed and has cleaned up
C13_Witness ==
    /\ last_op = "start_failed"
    /\ state = "IDLE" /\ Stopped
    /\ \E c \in Conns : pc[c] = "closed"

\* C14: start_voice_mode called while is_voice_mode_active holds returns
\* normally and leaves state, current_session, capture, the synthesis
\* sessions and conversation_context as they are.
C14_StartWhileActive ==
    [][\A p \in Conns \cup Rest : \A ret \in {"status", "idle"} :
         (is_voice_mode_active /\ pc[p] = "idle" /\ StartBegin(p, ret)) =>
            /\ pc'[p] = ret
            /\ UNCHANGED <<state, is_voice_mode_active, current_session,
                           conversation_context, is_recording, open,
                           opened>>]_vars

\* start_voice_mode was called while voice mode was active
C14_Witness ==
    /\ last_op = "start_noop"
    /\ is_voice_mode_active /\ current_session \in open

\* C15: once a finalized transcript with a stop phrase is recorded, the
\* conversation loop that recorded it starts no further turn: it is never
\* listening again.
C15_StopPhraseEndsLoop ==
    (\E i \in DOMAIN conversation_context :
        /\ conversation_context[i].role = "user"
        /\ HasStopPhrase(conversation_context[i].content))
        => \A c \in Conns : pc[T(c)] \notin {"detect", "stream"}

\* C17: during the Speaking phase of a reply no audio chunk of an earlier
\* reply is forwarded and no final marker of an earlier reply ends the
\* receive loop.
C17_NoMixingAcrossReplies ==
    \A c \in Conns :
        ~InLog(c, "late_chunk") /\ speak_path[c] # "late_final"

\* C18: once start_voice_mode has succeeded in the /voice/stream handler,
\* the handler ends only as a stop_voice_mode call of its own returns: from
\* the call made after the conversation task was joined, or from the close
\* that call awaited.
C18_TeardownStops ==
    [][\A c \in Conns :
         (pc[c] \in {"status", "serve", "join", "stop_close"}
              /\ pc'[c] = "closed")
            => pc[c] \in {"join", "stop_close"}]_vars

\* C19: when agent_handler raises during a turn, nothing is spoken and no
\* assistant turn is appended (the context and the audio sent so far stay as
\* they are, the state is never SPEAKING), the conversation task goes to its
\* pacing sleep with voice mode as it was, and when it wakes with voice mode
\* still active and the recorder running the state is LISTENING again.
C19_GenerationErrorRecovered ==
    [][\A c \in Conns :
         /\ GenRaised(c) =>
               /\ conversation_context' = conversation_context
               /\ reply_log'[c] = reply_log[c]
               /\ state' = "ERROR"
               /\ pc'[T(c)] = "sleep"
               /\ is_voice_mode_active' = is_voice_mode_active
         /\ (speak_path[c] = "gen_raised" /\ is_voice_mode_active
                 /\ is_recording /\ TaskLoop(c)) =>
               /\ state' = "LISTENING"
               /\ pc'[T(c)] = "detect"
               /\ conversation_context' = conversation_context]_vars
C19_Witness ==
    /\ last_op = "relisten"
    /\ state = "LISTENING"
    /\ is_voice_mode_active
    /\ \E c \in Conns : pc[T(c)] = "detect"
    /\ conversation_context # <<>>
    /\ conversation_context[Len(conversation_context)].role = "user"

\* C20: a step in which speak_response fails while streaming a reply (it
\* leaves through its except clause) leaves the synthesis context the reply
\* was using closed, or being closed by the stop_voice_mode call that ends
\* the loop, so that no later reply can use it.
C20_ContextClosedOnError ==
    [][\A c \in Conns :
         (pc[T(c)] \in {"send", "recv"} /\ speak_exit[c] # "ERROR"
              /\ speak_exit'[c] = "ERROR")
            => \/ websocket[c] \notin open'
               \/ /\ closing'[T(c)] = websocket[c]
                  /\ pc'[T(c)] = "stop_close"]_vars

C22_StreamingFailureNotFatal ==
    [][\A c \in Conns :
         /\ (pc[T(c)] \in {"send", "recv"} /\ ~cancelled[c]
                /\ pc'[T(c)] \notin {"send", "recv"}) =>
               /\ speak_exit'[c] \in {"ERROR", "LISTENING"}
               /\ \/ HasStopPhrase(user_input[c])
                  \/ /\ pc'[T(c)] = "sleep"
                     /\ is_voice_mode_active' = is_voice_mode_active
         /\ (speak_exit[c] = "ERROR" /\ is_voice_mode_active /\ is_recording
                /\ TaskLoop(c)) =>
               /\ state' = "LISTENING"
               /\ pc'[T(c)] = "detect"]_vars

\* send_text failed and so did the fallback synthesize call; the loop is at
\* its pacing sleep with voice mode active
C22_Witness ==
    /\ speak_path[1] = "send_raised"
    /\ speak_exit[1] = "ERROR"
    /\ InLog(1, "blob_failed")
    /\ pc[T(1)] = "sleep"
    /\ is_voice_mode_active

\* C23: in a turn whose fragments f1..fn arrive in that order, whose
\* Response Generator yields r1..rm and whose synthesis stream ends with the
\* final marker, every fragment goes to the end of the transcript; the user
\* turn appended at finalization is f1..fn joined by single spaces, which is
\* also the user_input of the turn; every yield goes to the end of
\* agent_response; and at the final marker the assistant turn with
\* agent_response is appended right behind that user turn.
C23_SuccessfulTurn ==
    [][\A c \in Conns :
         /\ \A w \in Words :
              FragmentUpTo(c, w, TurnFrags) =>
                 LET fs == Append(Frags(full_transcription[c]), w) IN
                 IF pc'[T(c)] = "stream"
                   THEN /\ Frags(full_transcription'[c]) = fs
                        /\ conversation_context' = conversation_context
                   ELSE /\ pc'[T(c)] = "gen"
                        /\ user_input'[c] = JoinSp(fs)
                        /\ conversation_context' =
                              Append(conversation_context,
                                     Turn("user", JoinSp(fs)))
         /\ \A ch \in TurnReplies :
              GenChunkUpTo(c, ch, TurnChunks) =>
                 /\ agent_response'[c] = agent_response[c] \o ch
                 /\ conversation_context' = conversation_context
         /\ (\/ RecvFinal(c, FALSE)
             \/ RecvAudio(c, TRUE, FALSE)) =>
                 /\ conversation_context # <<>>
                 /\ conversation_context[Len(conversation_context)] =
                       Turn("user", user_input[c])
                 /\ conversation_context' =
                       Append(conversation_context,
                              Turn("assistant", agent_response[c]))]_vars

\* a turn of two fragments and two yields has ended with the final marker
C23_Witness ==
    /\ speak_path[1] = "final"
    /\ conversation_context =
          << Turn("user", <<"hi", SP, "Goodbye">>),
             Turn("assistant", <<"ok", "bye">>) >>

\* C24: when detect_speech_start has seen no frame above the threshold until
\* its 5 s are over, listen_for_input returns the empty string without
\* having entered stream_transcription: the turn ends with the state as it
\* was, which is LISTENING while voice mode is active, with
\* conversation_context unchanged and no transcript, and the transcription
\* loop, the only caller of the engine, has not run.
C24_NoSpeechWithinTimeout ==
    [][\A c \in Conns :
         (DetectPoll(c) /\ now - detect_start >= DetectTimeout) =>
            /\ state' = state
            /\ is_voice_mode_active => state' = "LISTENING"
            /\ conversation_context' = conversation_context
            /\ full_transcription[c] = <<>>
            /\ user_input'[c] = <<>>
            /\ pc'[T(c)] = "sleep"
            /\ UNCHANGED <<audio_buffer, last_process_time,
                           last_speech_time>>]_vars

\* five seconds of silence have ended a listen_for_input call
C24_Witness ==
    /\ pc[T(1)] = "sleep"
    /\ is_voice_mode_active
    /\ state = "LISTENING"
    /\ conversation_context = <<>>
    /\ now - detect_start >= DetectTimeout
    /\ last_speech_time = 0

\* C25: when listen_for_input returns the empty string (the detection
\* timeout, a transcript that is blank, an error while listening), the turn
\* ends there: the Response Generator, speak_response and text_callback are
\* not reached, conversation_context and the audio sent stay as they are,
\* and the loop goes to its pacing sleep with voice mode as it was, to listen
\* again when it wakes.  The Response Generator is only ever entered with a
\* transcript that is not empty.
C25_EmptyTranscriptDiscarded ==
    [][\A c \in Conns :
         /\ (\/ DetectTimedOut(c)
             \/ StreamEnded(c) /\ user_input'[c] = <<>>
             \/ TaskLoop(c) /\ is_voice_mode_active /\ ~is_recording) =>
               /\ pc'[T(c)] = "sleep"
               /\ conversation_context' = conversation_context
               /\ reply_log'[c] = <<>>
               /\ agent_response'[c] = <<>>
               /\ speak_path'[c] = "none"
               /\ is_voice_mode_active' = is_voice_mode_active
         /\ (pc[T(c)] # "gen" /\ pc'[T(c)] = "gen") =>
               /\ user_input'[c] # <<>>
               /\ user_input'[c] = Strip(user_input'[c])
         /\ pc[T(c)] \in {"created", "sleep", "detect", "stream"} =>
               pc'[T(c)] \notin {"send", "recv"}
         /\ (pc[T(c)] = "sleep" /\ is_voice_mode_active /\ is_recording
                /\ TaskLoop(c)) =>
               /\ state' = "LISTENING"
               /\ pc'[T(c)] = "detect"]_vars

\* a turn without speech was discarded after a turn with speech
C25_Witness ==
    /\ pc[T(1)] = "sleep"
    /\ is_voice_mode_active
    /\ state = "LISTENING"
    /\ speak_path[1] = "none" /\ reply_log[1] = <<>>
    /\ Len(conversation_context) = 2
    /\ spoken = 1

\* C26: with frames that are all below the activation threshold,
\* detect_speech_start never returns true (listen_for_input never enters
\* stream_transcription), no buffer that stream_transcription hands to
\* transcribe_audio gets as far as model.transcribe, and no transcript comes
\* into being.
C26_QuietNeverTranscribed ==
    [][/\ pc[T(1)] = "detect" => pc'[T(1)] # "stream"
       /\ ~EngineCalled(audio_buffer \o audio_queue)
       /\ ~EngineCalled(audio_buffer)
       /\ full_transcription'[1] = <<>>
       /\ conversation_context' = <<>>
       /\ pc'[T(1)] # "gen"]_vars

\* stream_transcription has handed a buffer of quiet frames to
\* transcribe_audio, and detect_speech_start has polled quiet frames
C26_Witness ==
    \/ /\ pc[T(1)] = "stream"
       /\ last_process_time >= ChunkDuration
       /\ audio_buffer = <<>>
       /\ now = last_process_time
    \/ /\ pc[T(1)] = "detect"
       /\ now - detect_start >= 2
       /\ audio_queue = <<>>

\* C27: a turn whose Response Generator has yielded reply content and is
\* still running is in the Speaking phase: the text yielded so far has gone
\* to the synthesis context.
C27_SpeakingOnFirstContent ==
    \A c \in Conns :
        (pc[T(c)] = "gen" /\ agent_response[c] # <<>>) => state = "SPEAKING"

\* C28: the audio callback never gets, for one reply, both a streamed chunk
\* of the reply and the blob, which is the audio of the whole reply text.
C28_FallbackOnlyRemaining ==
    \A c \in Conns : ~(InLog(c, "chunk") /\ InLog(c, "blob"))

\* C29: every user entry of conversation_context has a text that is not
\* empty after stripping, and the timestamps of the entries never decrease
\* along the list (the clock not running backwards).
C29_UserTurnsNeverEmpty ==
    /\ \A i \in DOMAIN conversation_context :
          conversation_context[i].role = "user" =>
              Strip(conversation_context[i].content) # <<>>
    /\ \A i, j \in DOMAIN conversation_context :
          i < j => conversation_context[i].timestamp
                      <= conversation_context[j].timestamp

\* two user turns were recorded, the second later than the first
C29_Witness ==
    /\ Len(conversation_context) >= 2
    /\ conversation_context[1].role = "user"
    /\ conversation_context[2].role = "user"
    /\ conversation_context[1].timestamp < conversation_context[2].timestamp

\* C30: when stop_recording has returned and no start_recording has
\* followed, is_recording is false and the audio queue is empty; so the next
\* start_recording begins with an empty queue.
C30_QueueEmptyAfterStop ==
    (~is_recording /\ \A r \in Rest : pc[r] = "idle") => audio_queue = <<>>

\* C31: each buffered frame is part of at most one transcription call: the
\* transcription engine is never called a second time on the buffer that
\* stream_transcription gave it before.
C31_FrameTranscribedOnce == buffer_calls <= 1

\* C32: when the transcription engine raises on a buffer, the pass of
\* stream_transcription yields no fragment: the transcript of the utterance
\* and the transcript store stay as they are; stream_transcription keeps
\* running, with an empty buffer and its timer set anew, so that the buffers
\* after it are transcribed.
C32_EngineFailureSkipped ==
    [][(/\ pc[T(1)] = "stream"
        /\ now - last_process_time >= ChunkDuration
        /\ EngineCalled(audio_buffer \o audio_queue)
        /\ StreamPollOn(1, Raises))
       => /\ full_transcription' = full_transcription
          /\ conversation_context' = conversation_context
          /\ pc'[T(1)] = "stream"
          /\ audio_buffer' = <<>>
          /\ audio_queue' = <<>>
          /\ last_process_time' = now]_vars

\* The engine raised on a buffer of the utterance and a later buffer of the
\* same utterance gave a fragment.
C32_Witness ==
    /\ pc[T(1)] = "stream"
    /\ raised_at > start_time
    /\ last_speech_time > raised_at
    /\ full_transcription[1] # <<>>

\* whether the list a is a prefix of the list b
IsPrefix(a, b) == Len(a) <= Len(b) /\ SubSeq(b, 1, Len(a)) = a

\* C33: every operation of VoiceManager other than
\* clear_conversation_context leaves the entries of conversation_context in
\* place: the list before the step is a prefix of the list after it, also over
\* a stop_voice_mode that is followed by a start_voice_mode.
C33_TranscriptAppendOnly ==
    [][IsPrefix(conversation_context, conversation_context')]_vars

\* A second session has been started after the first was stopped, and the
\* transcript store holds the turns of the conversation.
C33_Witness ==
    /\ opened = 2 /\ current_session = 2
    /\ is_voice_mode_active
    /\ last_op = "start"
    /\ Len(conversation_context) >= 2

\* C34: once stop_voice_mode has completed and until the next
\* start_voice_mode, a turn in flight calls the Response Generator no more,
\* delivers no blob of the fallback to the audio callback, and appends
\* nothing to conversation_context.
C34_NoEffectsAfterStop ==
    [][(/\ Stopped
        /\ \A p \in Procs : pc[p] \notin {"start_open", "stop_close"})
       => /\ conversation_context' = conversation_context
          /\ \A c \in Conns :
                /\ pc'[T(c)] = "gen" => pc[T(c)] = "gen"
                /\ reply_log'[c] = <<"blob">> => reply_log[c] = <<"blob">>]_vars

\* C35: whenever no start_voice_mode or stop_voice_mode call is in progress,
\* is_voice_mode_active implies that there is a current session and that the
\* capture is recording, and a VoiceManager that is not active has no
\* current session.
C35_ActiveImpliesSession ==
    (\A p \in Procs : pc[p] \notin {"start_open", "stop_close"})
       => /\ is_voice_mode_active =>
                current_session # NoSession /\ is_recording
          /\ ~is_voice_mode_active => current_session = NoSession

\* C36: when a continuous_conversation that has begun to run ends, by a stop
\* phrase, by finding is_voice_mode_active false, by an exception or by the
\* cancellation of its task at any await, then is_voice_mode_active is
\* false, state is IDLE, the capture is stopped and there is no current
\* session.
C36_LoopAlwaysCleansUp ==
    [][\A c \in Conns :
         (pc[T(c)] \notin {"none", "created", "done"} /\ pc'[T(c)] = "done")
            => /\ ~is_voice_mode_active'
               /\ state' = "IDLE"
               /\ ~is_recording'
               /\ current_session' = NoSession]_vars

\* C37: the close function of a synthesis session is invoked at most once
\* over all stop_voice_mode calls: no two stop_voice_mode calls await the
\* close of the same session.
C37_CloseAtMostOnce ==
    \A p, q \in Procs :
       (p # q /\ closing[p] # NoSession) => closing[q] # closing[p]

\* C38: a frame that detect_speech_start takes from the queue, the frame it
\* finds speech in included, reaches no other consumer: after a pass of
\* detect_speech_start over a queue that is not empty, what
\* stream_transcription holds and what is left in the queue are the frames
\* behind the one taken, so that the transcript is built from frames
\* captured after the frame speech was found in.
C38_FramesReachOneConsumer ==
    [][(/\ ListenStart(1) \/ DetectPoll(1)
        /\ pc'[T(1)] \in {"detect", "stream"}
        /\ audio_queue # <<>>)
       => audio_buffer' \o audio_queue' = Tail(audio_queue)]_vars

\* detect_speech_start has found speech in this second and
\* stream_transcription holds the frames that were queued behind it.
C38_Witness ==
    /\ pc[T(1)] = "stream"
    /\ last_speech_time = now /\ last_process_time = now
    /\ full_transcription[1] = <<>>
    /\ audio_buffer # <<>>

====
